---- MODULE Spec2Model ----
(***************************************************************************)
(* The solver adapters CPSAT_PY (src/pulp/apis/cpsat_api.py) and Z3_PY     *)
(* (src/pulp/apis/z3_api.py) of PuLP: building the native model from the   *)
(* generic LpProblem, invoking the native engine, and mapping the native   *)
(* outcome back onto the LpProblem.                                        *)
(*                                                                         *)
(* An optional Python value is a sequence: None is << >>, a value v is     *)
(* <<v>>.  The native engines (OR-Tools CP-SAT, Z3) are outside the        *)
(* repository: a native solve is a nondeterministic choice among the       *)
(* outcomes the engine can report for the native model it was handed.      *)
(***************************************************************************)
EXTENDS Integers, Sequences, FiniteSets, TLC

VARIABLES
    backend,        \* which adapter class `self` is an instance of
    engineLoaded,   \* whether the class body's `import` of the engine succeeded
    timeLimit,      \* self.timeLimit (seconds), None when not configured
    lpVariables,    \* lp.variables(): name -> [cat, lowBound, upBound, varValue, modified]
    lpConstraints,  \* lp.constraints.values(): sequence of constraints
    lpObjective,    \* lp.objective: name -> coefficient
    lpSense,        \* lp.sense
    solverModel,    \* lp.solverModel (with lp.modelVars): the native model, None before a build
    solverResult,   \* the native solver object after its solve (lp.cpSatSolver + lp.solverStatus, Z3Model.solver + Z3Model.model)
    call            \* the last adapter call and how it ended

vars == <<backend, engineLoaded, timeLimit, lpVariables, lpConstraints,
          lpObjective, lpSense, solverModel, solverResult, call>>

lpView == <<lpVariables, lpConstraints, lpObjective, lpSense>>

----------------------------------------------------------------------------
(* Bounds of the model *)

MaxBound == 2        \* largest finite variable bound
MaxCoef == 1         \* the coefficient of x in a constraint is -MaxCoef or MaxCoef
MaxConst == 1        \* the constant of a constraint is -MaxConst or MaxConst
TimeLimitSeconds == 1    \* the time limit, when one is configured

None == << >>
Some(v) == <<v>>
Val(o) == o[1]

Dummy == "__dummy"
LpInteger == "Integer"
LpContinuous == "Continuous"
LpOtherCat == "Other"

LpConstraintEQ == "EQ"
LpConstraintLE == "LE"
LpConstraintGE == "GE"

LpMinimize == "Minimize"
LpMaximize == "Maximize"

LpStatusOptimal == "Optimal"
LpStatusNotSolved == "NotSolved"
LpStatusInfeasible == "Infeasible"
LpStatusUnbounded == "Unbounded"
LpStatusUndefined == "Undefined"

SharedStatuses ==
    {LpStatusOptimal, LpStatusInfeasible, LpStatusUnbounded,
     LpStatusNotSolved, LpStatusUndefined}

\* lp.variables() lists the variables sorted by name
VarOrder == <<Dummy, "x", "y">>

RECURSIVE SeqFilter(_, _)
SeqFilter(s, S) ==
    IF s = << >> THEN << >>
    ELSE IF Head(s) \in S THEN <<Head(s)>> \o SeqFilter(Tail(s), S)
         ELSE SeqFilter(Tail(s), S)

\* the variables of lp, in the order lp.variables() yields them
variables(lpv) == SeqFilter(VarOrder, DOMAIN lpv)

\* the keys of a coefficient mapping, in iteration order
items(m) == SeqFilter(VarOrder, DOMAIN m)

----------------------------------------------------------------------------
(* Linear expressions and constraints, shared shape of both native models *)

RECURSIVE SumTerms(_, _)
\* the value of a native linear expression (a sum of coefficient * variable
\* terms; Python's sum of an empty list is 0) under the assignment a
SumTerms(expr, a) ==
    IF expr = << >> THEN 0
    ELSE Head(expr).coef * a[Head(expr).var] + SumTerms(Tail(expr), a)

\* whether the assignment a satisfies the native comparison c
NativeSat(c, a) ==
    LET l == SumTerms(c.expr, a) IN
    CASE c.op = "==" -> l = c.rhs
      [] c.op = "<=" -> l <= c.rhs
      [] c.op = ">=" -> l >= c.rhs

RECURSIVE TermsOf(_, _)
TermsOf(keys, m) ==
    IF keys = << >> THEN << >>
    ELSE <<[coef |-> m[Head(keys)], var |-> Head(keys)]>> \o TermsOf(Tail(keys), m)

\* CPSAT_PY.buildLinearExpr: one term coefficient * lp.modelVars[v.name] per
\* item of the mapping; a name missing from lp.modelVars is a KeyError
buildLinearExpr(modelVars, coeffs) ==
    IF \E n \in DOMAIN coeffs : n \notin DOMAIN modelVars
    THEN [raised |-> "KeyError", expr |-> << >>]
    ELSE [raised |-> "", expr |-> TermsOf(items(coeffs), coeffs)]

\* CPSAT_PY.buildConstraint: expr {==, <=, >=} rhs with rhs = -constraint.constant
buildConstraint(modelVars, constraint) ==
    LET e == buildLinearExpr(modelVars, constraint.coeffs)
        rhs == 0 - constraint.constant
    IN IF constraint.sense = LpConstraintEQ
       THEN [raised |-> e.raised, constr |-> [expr |-> e.expr, op |-> "==", rhs |-> rhs]]
       ELSE IF constraint.sense = LpConstraintLE
            THEN [raised |-> e.raised, constr |-> [expr |-> e.expr, op |-> "<=", rhs |-> rhs]]
            ELSE [raised |-> e.raised, constr |-> [expr |-> e.expr, op |-> ">=", rhs |-> rhs]]

\* CPSAT_PY.isSatProblem: the objective names nothing but the dummy
isSatProblem(objective) == (DOMAIN objective) \ {Dummy} = {}

----------------------------------------------------------------------------
(* CPSAT_PY.buildSolverModel *)

\* cp_model.CpModel.NewIntVar(lb, ub, name): the native call takes integer
\* bounds and raises TypeError for None
NewIntVar(lb, ub, name) ==
    IF lb = None \/ ub = None
    THEN [raised |-> "TypeError", var |-> [sort |-> "Int", lb |-> lb, ub |-> ub]]
    ELSE [raised |-> "", var |-> [sort |-> "Int", lb |-> lb, ub |-> ub]]

EmptyCpModel == [vars |-> << >>, constraints |-> << >>, objective |-> None, timeout |-> None]

RECURSIVE CpSkipContinuous(_, _, _)
\* the variable loop with every Continuous variable skipped like the dummy
CpSkipContinuous(vs, lpv, m) ==
    IF vs = << >> THEN [raised |-> "", model |-> m]
    ELSE LET n == Head(vs)
             v == lpv[n]
         IN IF v.cat = LpInteger
            THEN LET nv == NewIntVar(v.lowBound, v.upBound, n) IN
                 IF nv.raised # ""
                 THEN [raised |-> nv.raised, model |-> m]
                 ELSE CpSkipContinuous(Tail(vs), lpv,
                          [m EXCEPT !.vars = (n :> nv.var) @@ m.vars])
            ELSE IF v.cat = LpContinuous
                 THEN CpSkipContinuous(Tail(vs), lpv, m)
                 ELSE [raised |-> "ValueError", model |-> m]

RECURSIVE CpCreateVariables(_, _, _)
\* the loop over lp.variables() creating the native variables
CpCreateVariables(vs, lpv, m) ==
    IF vs = << >> THEN [raised |-> "", model |-> m]
    ELSE LET n == Head(vs)
             v == lpv[n]
         IN IF v.cat = LpInteger
            THEN LET nv == NewIntVar(v.lowBound, v.upBound, n) IN
                 IF nv.raised # ""
                 THEN [raised |-> nv.raised, model |-> m]
                 ELSE CpCreateVariables(Tail(vs), lpv,
                          [m EXCEPT !.vars = (n :> nv.var) @@ m.vars])
            ELSE IF v.cat = LpContinuous
                 THEN IF n # Dummy
                      THEN [raised |-> "ValueError", model |-> m]
                      ELSE CpCreateVariables(Tail(vs), lpv, m)
                 ELSE [raised |-> "ValueError", model |-> m]

RECURSIVE CpCreateConstraints(_, _)
\* the loop over lp.constraints.values() adding the native constraints
CpCreateConstraints(cs, m) ==
    IF cs = << >> THEN [raised |-> "", model |-> m]
    ELSE LET c == buildConstraint(m.vars, Head(cs)) IN
         IF c.raised # ""
         THEN [raised |-> c.raised, model |-> m]
         ELSE CpCreateConstraints(Tail(cs),
                  [m EXCEPT !.constraints = Append(m.constraints, c.constr)])

\* the objective step: Maximize or Minimize the objective's expression unless
\* the problem is a SAT problem
CpAddObjective(m, objective, sense) ==
    IF isSatProblem(objective) THEN [raised |-> "", model |-> m]
    ELSE LET e == buildLinearExpr(m.vars, objective) IN
         IF e.raised # "" THEN [raised |-> e.raised, model |-> m]
         ELSE IF sense = LpMaximize
              THEN [raised |-> "",
                    model |-> [m EXCEPT !.objective = Some([dir |-> "Maximize", expr |-> e.expr])]]
              ELSE [raised |-> "",
                    model |-> [m EXCEPT !.objective = Some([dir |-> "Minimize", expr |-> e.expr])]]

CpBuildSolverModel(lpv, lpc, objective, sense) ==
    LET a == CpCreateVariables(variables(lpv), lpv, EmptyCpModel) IN
    IF a.raised # "" THEN a
    ELSE LET b == CpCreateConstraints(lpc, a.model) IN
         IF b.raised # "" THEN b
         ELSE CpAddObjective(b.model, objective, sense)

----------------------------------------------------------------------------
(* Z3_PY.buildSolverModel and Z3Model *)

\* Z3Model.__init__: no variables, no constraints, the given timeout
Z3ModelInit(timeout) ==
    [vars |-> << >>, constraints |-> << >>, objective |-> None, timeout |-> timeout]

\* z3Var >= bound, z3Var <= bound: the comparison coerces its Python operand
\* to a Z3 numeral and raises Z3Exception for None
Z3Bound(n, op, bound) ==
    IF bound = None
    THEN [raised |-> "Z3Exception", constr |-> [expr |-> << >>, op |-> op, rhs |-> 0]]
    ELSE [raised |-> "",
          constr |-> [expr |-> <<[coef |-> 1, var |-> n]>>, op |-> op, rhs |-> Val(bound)]]

RECURSIVE Z3CreateVariables(_, _, _)
\* the loop over lp.variables(): z3.Int or z3.Real, then the two bound
\* constraints
Z3CreateVariables(vs, lpv, m) ==
    IF vs = << >> THEN [raised |-> "", model |-> m]
    ELSE LET n == Head(vs)
             v == lpv[n]
         IN IF v.cat \notin {LpInteger, LpContinuous}
            THEN [raised |-> "ValueError", model |-> m]
            ELSE LET z3Var == [sort |-> IF v.cat = LpInteger THEN "Int" ELSE "Real",
                               lb |-> None, ub |-> None]
                     m1 == [m EXCEPT !.vars = (n :> z3Var) @@ m.vars]
                     lo == Z3Bound(n, ">=", v.lowBound)
                     hi == Z3Bound(n, "<=", v.upBound)
                 IN IF lo.raised # "" THEN [raised |-> lo.raised, model |-> m1]
                    ELSE LET m2 == [m1 EXCEPT !.constraints = Append(m1.constraints, lo.constr)] IN
                         IF hi.raised # "" THEN [raised |-> hi.raised, model |-> m2]
                         ELSE Z3CreateVariables(Tail(vs), lpv,
                                  [m2 EXCEPT !.constraints = Append(m2.constraints, hi.constr)])

\* the comparison with the constant's sign kept on the right-hand side
Z3ConstraintKeepsSign(constraint) ==
    LET expr == TermsOf(items(constraint.coeffs), constraint.coeffs)
        rhs == constraint.constant
    IN IF constraint.sense = LpConstraintEQ
       THEN [expr |-> expr, op |-> "==", rhs |-> rhs]
       ELSE IF constraint.sense = LpConstraintLE
            THEN [expr |-> expr, op |-> "<=", rhs |-> rhs]
            ELSE [expr |-> expr, op |-> ">=", rhs |-> rhs]

\* the comparison sum(expr) {==, <=, >=} rhs with rhs = -constraint.constant
Z3Constraint(constraint) ==
    LET expr == TermsOf(items(constraint.coeffs), constraint.coeffs)
        rhs == 0 - constraint.constant
    IN IF constraint.sense = LpConstraintEQ
       THEN [expr |-> expr, op |-> "==", rhs |-> rhs]
       ELSE IF constraint.sense = LpConstraintLE
            THEN [expr |-> expr, op |-> "<=", rhs |-> rhs]
            ELSE [expr |-> expr, op |-> ">=", rhs |-> rhs]

RECURSIVE Z3CreateConstraints(_, _)
\* the loop over lp.constraints.values(); Z3Model.getVariable(v.name) is a
\* KeyError for a name the first loop did not add
Z3CreateConstraints(cs, m) ==
    IF cs = << >> THEN [raised |-> "", model |-> m]
    ELSE IF \E n \in DOMAIN Head(cs).coeffs : n \notin DOMAIN m.vars
         THEN [raised |-> "KeyError", model |-> m]
         ELSE Z3CreateConstraints(Tail(cs),
                  [m EXCEPT !.constraints = Append(m.constraints, Z3Constraint(Head(cs)))])

Z3BuildSolverModel(lpv, lpc, limit) ==
    LET a == Z3CreateVariables(variables(lpv), lpv, Z3ModelInit(limit)) IN
    IF a.raised # "" THEN a
    ELSE Z3CreateConstraints(lpc, a.model)


----------------------------------------------------------------------------
(* The native engines.  Variables take the values 0..MaxBound; a Real of   *)
(* Z3 is sampled at its integer points.                                    *)

Values == 0 .. MaxBound

InDomain(nv, x) ==
    /\ nv.lb # None => Val(nv.lb) <= x
    /\ nv.ub # None => x <= Val(nv.ub)

\* the assignments of the native variables that satisfy the native model
Feasible(m) ==
    {a \in [DOMAIN m.vars -> Values] :
        /\ \A n \in DOMAIN m.vars : InDomain(m.vars[n], a[n])
        /\ \A i \in 1 .. Len(m.constraints) : NativeSat(m.constraints[i], a)}

\* the feasible assignments that are optimal for the native objective, all of
\* them when the native model has no objective
Best(m) ==
    IF m.objective = None THEN Feasible(m)
    ELSE LET o == Val(m.objective) IN
         {a \in Feasible(m) : \A b \in Feasible(m) :
             IF o.dir = "Maximize"
             THEN SumTerms(o.expr, a) >= SumTerms(o.expr, b)
             ELSE SumTerms(o.expr, a) <= SumTerms(o.expr, b)}

\* CPSAT_PY.callSolver: a fresh cp_model.CpSolver() with its default
\* parameters solves lp.solverModel; the outcome is the solver (its time
\* limit parameter, its values) and the status code of Solve
CpCallSolver(m) ==
    {[limitMs |-> None, code |-> "OPTIMAL", reason |-> "", values |-> Some(a)] : a \in Best(m)}
    \cup {[limitMs |-> None, code |-> "FEASIBLE", reason |-> "", values |-> Some(a)] : a \in Feasible(m)}
    \cup (IF Feasible(m) = {}
          THEN {[limitMs |-> None, code |-> "INFEASIBLE", reason |-> "", values |-> None]}
          ELSE {})
    \cup {[limitMs |-> None, code |-> c, reason |-> "", values |-> None] :
             c \in {"UNKNOWN", "MODEL_INVALID"}}

\* Z3Model.getSolver: the "timeout" parameter of z3.Solver is in milliseconds
\* and is set to self.timeout as it is
getSolver(m) == m.timeout

\* Z3Model.solve: the solver checks the constraints; Z3Model.model is set when
\* the result is sat (status.r > 0) and stays None for unsat and unknown
Z3Solve(m) ==
    {[limitMs |-> getSolver(m), code |-> "sat", reason |-> "", values |-> Some(a)] : a \in Feasible(m)}
    \cup (IF Feasible(m) = {}
          THEN {[limitMs |-> getSolver(m), code |-> "unsat", reason |-> "", values |-> None]}
          ELSE {})
    \cup {[limitMs |-> getSolver(m), code |-> "unknown", reason |-> r, values |-> None] :
             r \in (IF getSolver(m) = None THEN {} ELSE {"timeout"}) \cup {"canceled"}}

\* Z3Model.status
Z3Status(res) ==
    IF res.values = None
    THEN IF res.reason = "timeout" THEN LpStatusNotSolved ELSE LpStatusInfeasible
    ELSE LpStatusOptimal

\* CPSAT_PY.findSolutionValues: statusMap
statusMap(code) ==
    CASE code = "FEASIBLE" -> LpStatusOptimal
      [] code = "INFEASIBLE" -> LpStatusInfeasible
      [] code = "OPTIMAL" -> LpStatusOptimal
      [] code = "MODEL_INVALID" -> LpStatusUndefined
      [] code = "UNKNOWN" -> LpStatusUndefined

\* CPSAT_PY.findSolutionValues: the values written to the variables
CpFindSolutionValues(lpv, res) ==
    IF res.code = "OPTIMAL"
    THEN [n \in DOMAIN lpv |->
            IF n # Dummy THEN [lpv[n] EXCEPT !.varValue = Some(Val(res.values)[n])]
            ELSE lpv[n]]
    ELSE lpv

\* Z3_PY.findSolutionValues: the values written to the variables
Z3FindSolutionValues(lpv, res) ==
    IF Z3Status(res) # LpStatusOptimal THEN lpv
    ELSE [n \in DOMAIN lpv |-> [lpv[n] EXCEPT !.varValue = Some(Val(res.values)[n])]]

\* actualSolve: var.modified = False for every variable
ClearVariables(lpv) == [n \in DOMAIN lpv |-> [lpv[n] EXCEPT !.modified = FALSE]]

\* actualSolve: constraint.modifier = False for every constraint
ClearConstraints(lpc) == [i \in 1 .. Len(lpc) |-> [lpc[i] EXCEPT !.modifier = Some(FALSE)]]

----------------------------------------------------------------------------
(* The LpProblem handed to the adapter *)

\* coefficient mappings of a constraint: over x alone, or over x and y
ConstraintCoeffs ==
    {("x" :> cx) : cx \in {0 - MaxCoef, MaxCoef}}
    \cup {("x" :> cx) @@ ("y" :> 1) : cx \in {0 - MaxCoef, MaxCoef}}

\* LpConstraint: a new constraint is marked modified and has no attribute
\* named modifier
Constraints ==
    {[coeffs |-> m, constant |-> k, sense |-> s, modified |-> TRUE, modifier |-> None] :
        m \in ConstraintCoeffs, k \in {0 - MaxConst, MaxConst},
        s \in {LpConstraintEQ, LpConstraintLE, LpConstraintGE}}

\* the objective: empty, the dummy alone (a problem without objective), or
\* over the variables
Objectives ==
    {<< >>, (Dummy :> 1), ("x" :> 1), ("x" :> 1) @@ ("y" :> 1)}

\* LpVariable: a new variable is marked modified and has no value
Variable(cat, lowBound, upBound) ==
    [cat |-> cat, lowBound |-> lowBound, upBound |-> upBound,
     varValue |-> None, modified |-> TRUE]

\* the dummy variable: continuous, fixed to 0
DummyVariable == Variable(LpContinuous, Some(0), Some(0))

Init ==
    /\ backend \in {"CPSAT_PY", "Z3_PY"}
    /\ engineLoaded \in BOOLEAN
    /\ timeLimit \in {None, Some(TimeLimitSeconds)}
    /\ lpObjective \in Objectives
    /\ lpSense \in {LpMinimize, LpMaximize}
    /\ \E xl \in {None, Some(0)}, xu \in {None, Some(MaxBound)},
          yc \in {LpInteger, LpContinuous, LpOtherCat} :
          lpVariables =
              (IF Dummy \in DOMAIN lpObjective THEN (Dummy :> DummyVariable) ELSE << >>)
              @@ ("x" :> Variable(LpInteger, xl, xu))
              @@ ("y" :> Variable(yc, Some(0), Some(1)))
    /\ lpConstraints \in {<< >>} \cup {<<c>> : c \in Constraints}
    /\ solverModel = None
    /\ solverResult = None
    /\ call = [op |-> "none", raised |-> "", ret |-> "", invoked |-> FALSE]

----------------------------------------------------------------------------
(* The adapter's methods *)

\* available() answering True whatever the import did
availableAlways == "True"

\* available() of the class body taken when the import succeeded or failed
available == IF engineLoaded THEN "True" ELSE "False"

Available ==
    /\ call' = [op |-> "available", raised |-> "", ret |-> available, invoked |-> FALSE]
    /\ UNCHANGED <<backend, engineLoaded, timeLimit, lpView, solverModel, solverResult>>

\* actualSolve of the class body taken when the import failed
UnavailableActualSolve ==
    /\ ~engineLoaded
    /\ call' = [op |-> "solve", raised |-> "PulpSolverError: Not Available",
                ret |-> "", invoked |-> FALSE]
    /\ UNCHANGED <<backend, engineLoaded, timeLimit, lpView, solverModel, solverResult>>

buildSolverModel ==
    IF backend = "CPSAT_PY"
    THEN CpBuildSolverModel(lpVariables, lpConstraints, lpObjective, lpSense)
    ELSE Z3BuildSolverModel(lpVariables, lpConstraints, timeLimit)

callSolver(m) == IF backend = "CPSAT_PY" THEN CpCallSolver(m) ELSE Z3Solve(m)

findSolutionValues(res) ==
    IF backend = "CPSAT_PY"
    THEN [status |-> statusMap(res.code), lpv |-> CpFindSolutionValues(lpVariables, res)]
    ELSE [status |-> Z3Status(res), lpv |-> Z3FindSolutionValues(lpVariables, res)]

\* actualSolve of the class body taken when the import succeeded: build, call
\* the solver, map the outcome, clear the markers, return the status; an
\* exception of the build leaves the method at once
ActualSolve ==
    /\ engineLoaded
    /\ LET b == buildSolverModel IN
       /\ solverModel' = Some(b.model)
       /\ IF b.raised # ""
          THEN /\ call' = [op |-> "solve", raised |-> b.raised, ret |-> "", invoked |-> FALSE]
               /\ UNCHANGED <<lpView, solverResult>>
          ELSE \E res \in callSolver(b.model) :
                  LET f == findSolutionValues(res) IN
                  /\ solverResult' = Some(res)
                  /\ lpVariables' = ClearVariables(f.lpv)
                  /\ lpConstraints' = ClearConstraints(lpConstraints)
                  /\ call' = [op |-> "solve", raised |-> "", ret |-> f.status, invoked |-> TRUE]
                  /\ UNCHANGED <<lpObjective, lpSense>>
    /\ UNCHANGED <<backend, engineLoaded, timeLimit>>

\* actualResolve falling back to a silent rebuild of the native model
ActualResolveRebuilds ==
    /\ engineLoaded
    /\ solverModel' = Some(buildSolverModel.model)
    /\ call' = [op |-> "resolve", raised |-> buildSolverModel.raised,
                ret |-> "", invoked |-> FALSE]
    /\ UNCHANGED <<backend, engineLoaded, timeLimit, lpView, solverResult>>

\* actualResolve of the class body taken when the import succeeded
ActualResolve ==
    /\ engineLoaded
    /\ call' = [op |-> "resolve", raised |-> "PulpSolverError: Resolving is not supported",
                ret |-> "", invoked |-> FALSE]
    /\ UNCHANGED <<backend, engineLoaded, timeLimit, lpView, solverModel, solverResult>>

\* the class body taken when the import failed defines no actualResolve: the
\* call goes to the base class, which for an unavailable backend fails with
\* the backend's not-available error
UnavailableActualResolve ==
    /\ ~engineLoaded
    /\ call' = [op |-> "resolve", raised |-> "PulpSolverError: Not Available",
                ret |-> "", invoked |-> FALSE]
    /\ UNCHANGED <<backend, engineLoaded, timeLimit, lpView, solverModel, solverResult>>

Next ==
    \/ Available
    \/ UnavailableActualSolve
    \/ ActualSolve
    \/ ActualResolve
    \/ UnavailableActualResolve

Spec == Init /\ [][Next]_vars

----------------------------------------------------------------------------
(* The generic meaning of the LpProblem, against which the adapters are    *)
(* judged                                                                  *)

RECURSIVE GenericSum(_, _, _)
\* sum of coeffs[n] * a[n] over the names in S
GenericSum(S, coeffs, a) ==
    IF S = {} THEN 0
    ELSE LET n == CHOOSE k \in S : TRUE IN
         coeffs[n] * a[n] + GenericSum(S \ {n}, coeffs, a)

\* sum(coeff * value) + constant {=, <=, >=} 0 for the declared sense
GenericSat(c, a) ==
    LET l == GenericSum(DOMAIN c.coeffs, c.coeffs, a) + c.constant IN
    CASE c.sense = LpConstraintEQ -> l = 0
      [] c.sense = LpConstraintLE -> l <= 0
      [] c.sense = LpConstraintGE -> l >= 0

\* the assignments within the variables' bounds that satisfy every constraint
GenericFeasible ==
    {a \in [DOMAIN lpVariables -> Values] :
        /\ \A n \in DOMAIN lpVariables :
              /\ lpVariables[n].lowBound # None => Val(lpVariables[n].lowBound) <= a[n]
              /\ lpVariables[n].upBound # None => a[n] <= Val(lpVariables[n].upBound)
        /\ \A i \in 1 .. Len(lpConstraints) : GenericSat(lpConstraints[i], a)}

ObjectiveValue(a) == GenericSum(DOMAIN lpObjective, lpObjective, a)

SolveReturned == call.op = "solve" /\ call.raised = ""

\* the native constraint built for the i-th constraint of lp: Z3Model's list
\* starts with the two bound constraints of every variable
NativeConstraint(i) ==
    IF backend = "CPSAT_PY" THEN Val(solverModel).constraints[i]
    ELSE Val(solverModel).constraints[2 * Cardinality(DOMAIN lpVariables) + i]

Signed == (0 - MaxBound) .. MaxBound

----------------------------------------------------------------------------
(* The claims *)

\* C1: a solve call returning Optimal has written every non-dummy variable's
\* value from this solve's outcome; a solve call returning any other status
\* changes no variable's value
C1_ValuesWrittenIffOptimal ==
    [][(call'.op = "solve" /\ call'.raised = "") =>
          IF call'.ret = LpStatusOptimal
          THEN \A n \in (DOMAIN lpVariables) \ {Dummy} :
                  lpVariables'[n].varValue = Some(Val(Val(solverResult').values)[n])
          ELSE \A n \in DOMAIN lpVariables :
                  lpVariables'[n].varValue = lpVariables[n].varValue]_vars

\* C2: the returned status is one of the shared statuses; a native outcome
\* that is neither a solution nor a proof of infeasibility maps to
\* NotSolved/Undefined; Infeasible is returned only for a native proof of
\* infeasibility
C2_StatusMapping ==
    SolveReturned =>
        /\ call.ret \in SharedStatuses
        /\ Val(solverResult).code \in {"UNKNOWN", "MODEL_INVALID", "unknown"}
              => call.ret \in {LpStatusNotSolved, LpStatusUndefined}
        /\ call.ret = LpStatusInfeasible
              => Val(solverResult).code \in {"INFEASIBLE", "unsat"}

\* C3: when the objective names a variable other than the dummy, the native
\* model built by a solve carries the objective's expression with the model's
\* direction, and a completed native solve (OPTIMAL, sat) returns Optimal only
\* with an assignment that is optimal for the objective
C3_NativeObjective ==
    (SolveReturned /\ ~isSatProblem(lpObjective)) =>
        /\ Val(solverModel).objective =
              Some([dir |-> IF lpSense = LpMaximize THEN "Maximize" ELSE "Minimize",
                    expr |-> TermsOf(items(lpObjective), lpObjective)])
        /\ (call.ret = LpStatusOptimal /\ Val(solverResult).code \in {"OPTIMAL", "sat"}) =>
              \A b \in GenericFeasible :
                  LET a == Val(Val(solverResult).values) IN
                  IF lpSense = LpMaximize
                  THEN ObjectiveValue(a) >= ObjectiveValue(b)
                  ELSE ObjectiveValue(a) <= ObjectiveValue(b)

\* C4: a solve call that returns a status leaves the modified marker of every
\* variable and of every constraint false and changes nothing else on the
\* constraints or the objective
C4_MarkersCleared ==
    [][(call'.op = "solve" /\ call'.raised = "") =>
          /\ \A n \in DOMAIN lpVariables' : ~lpVariables'[n].modified
          /\ \A i \in 1 .. Len(lpConstraints) :
                lpConstraints'[i] = [lpConstraints[i] EXCEPT !.modified = FALSE]
          /\ UNCHANGED <<lpObjective, lpSense>>]_vars

\* C5: a solve call with a configured time limit of t seconds runs the native
\* solve under a limit of t seconds; without a configured limit none is set
C5_TimeLimitHandedOver ==
    (call.op = "solve" /\ call.invoked) =>
        Val(solverResult).limitMs =
            (IF timeLimit = None THEN None ELSE Some(1000 * Val(timeLimit)))

\* C6: a solve of a model whose variables are all Integer and whose variable x
\* has an absent lower or upper bound builds the native model without error,
\* with a native variable for x
C6_OpenBoundBuilds ==
    (/\ call.op = "solve"
     /\ engineLoaded
     /\ \A n \in (DOMAIN lpVariables) \ {Dummy} : lpVariables[n].cat = LpInteger
     /\ lpVariables["x"].lowBound = None \/ lpVariables["x"].upBound = None)
    => /\ call.raised = ""
       /\ "x" \in DOMAIN Val(solverModel).vars

HasUnsupportedKind(lpv) ==
    \E n \in DOMAIN lpv :
        \/ lpv[n].cat = LpContinuous /\ n # Dummy
        \/ lpv[n].cat \notin {LpInteger, LpContinuous}

\* C7: on CPSAT_PY a solve of a model with a Continuous variable other than
\* the dummy, or a variable of an unknown kind, ends with an error before the
\* native solve and leaves the variables, constraints and objective as they
\* were; a model whose only Continuous variable is the dummy is not rejected
\* as unsupported
C7_CpSatRejectsContinuous ==
    [][(backend = "CPSAT_PY" /\ engineLoaded /\ call'.op = "solve") =>
          /\ HasUnsupportedKind(lpVariables) =>
                /\ call'.raised # ""
                /\ ~call'.invoked
                /\ UNCHANGED <<lpView, solverResult>>
          /\ ~HasUnsupportedKind(lpVariables) => call'.raised # "ValueError"]_vars

C7_Witness ==
    /\ backend = "CPSAT_PY"
    /\ call.op = "solve"
    /\ call.raised = "ValueError"
    /\ lpVariables["y"].cat = LpContinuous
    /\ lpVariables["y"].modified
    /\ solverResult = None

\* C8 as stated: resolve always fails with the resolving-is-not-supported
\* error, builds and invokes nothing and leaves the model untouched
C8_ResolveAlwaysNotSupported ==
    [][call'.op = "resolve" =>
          /\ call'.raised = "PulpSolverError: Resolving is not supported"
          /\ ~call'.invoked
          /\ UNCHANGED <<lpView, solverModel, solverResult>>]_vars

\* C8 amended: when the native engine is loaded, resolve always fails with
\* the resolving-is-not-supported error, builds and invokes nothing and
\* leaves the model untouched
C8_ResolveNotSupportedWhenLoaded ==
    [][(engineLoaded /\ call'.op = "resolve") =>
          /\ call'.raised = "PulpSolverError: Resolving is not supported"
          /\ ~call'.invoked
          /\ UNCHANGED <<lpView, solverModel, solverResult>>]_vars

C8_Witness ==
    /\ engineLoaded
    /\ call.op = "resolve"
    /\ call.raised = "PulpSolverError: Resolving is not supported"
    /\ solverResult # None
    /\ lpVariables["x"].varValue # None

\* C9: available() returns whether the engine is loaded and changes no state;
\* with the engine not loaded solve fails with the not-available error
\* without building, invoking the native solve or touching the model
C9_UnavailableFailsFast ==
    [][/\ call'.op = "available" =>
             /\ call'.ret = (IF engineLoaded THEN "True" ELSE "False")
             /\ UNCHANGED <<backend, engineLoaded, timeLimit, lpView,
                            solverModel, solverResult>>
       /\ (call'.op = "solve" /\ ~engineLoaded) =>
             /\ call'.raised = "PulpSolverError: Not Available"
             /\ ~call'.invoked
             /\ UNCHANGED <<lpView, solverModel, solverResult>>]_vars

C9_Witness ==
    /\ ~engineLoaded
    /\ call.op = "solve"
    /\ call.raised = "PulpSolverError: Not Available"
    /\ solverModel = None

\* C10: every native constraint built by a solve is satisfied by an
\* assignment exactly when sum(coeff * value) + constant {=, <=, >=} 0 holds
\* for the constraint's sense
C10_ConstraintSemantics ==
    SolveReturned =>
        \A i \in 1 .. Len(lpConstraints) :
            \A a \in [DOMAIN lpConstraints[i].coeffs -> Signed] :
                NativeSat(NativeConstraint(i), a) <=> GenericSat(lpConstraints[i], a)

C10_Witness ==
    /\ SolveReturned
    /\ backend = "Z3_PY"
    /\ Len(lpConstraints) = 1
    /\ lpConstraints[1].sense = LpConstraintGE
    /\ DOMAIN lpConstraints[1].coeffs = {"x", "y"}
    /\ lpConstraints[1].constant = MaxConst

====
